---- MODULE Spec2Model ----
(***************************************************************************)
(* WeatherService (src/unnamed/part_000): an in-memory cache of normalized *)
(* weather snapshots keyed by rounded coordinates, filled by asynchronous  *)
(* coordinate and ZIP lookups, with a fixed time-to-live.                  *)
(*                                                                         *)
(* JavaScript values are modelled as tagged records.  A number is held as  *)
(* an integer count of 1/Scale units (Scale a power of two, so every       *)
(* modelled number is exactly representable as a double and toFixed's      *)
(* rounding is the exact one).                                             *)
(***************************************************************************)
EXTENDS Integers, Sequences, FiniteSets, TLC

VARIABLES
  cache,       \* this.cache: cache key (string) -> [data, timestamp]
  now,         \* Date.now(), in milliseconds since the service was constructed
  calls,       \* the lookups: call id -> its position, arguments and outcome
  afterClear,  \* history: "cleared" after clearCache(), "stored" once a response
               \* has been stored since, "none" once a lookup has started since
  normIn,      \* normalization taken alone: the raw input
  normOut,     \* normalization taken alone: the outcome
  zipCodeState, \* LandingPage: the zipCode state, a sequence of characters
  onZipSubmit, \* LandingPage: whether the onZipSubmit prop was supplied
  acts         \* LandingPage: the entry actions (a form submit or a click on
               \* the geolocation button): id -> position and callbacks made

\* the state of the LandingPage component
landing == <<zipCodeState, onZipSubmit, acts>>

vars == <<cache, now, calls, afterClear, normIn, normOut, landing>>

(***************************** bounds **************************************)

MaxCalls == 2
MaxFields == 1
MaxActs == 2

(************************* JavaScript values *******************************)

Scale == 2 ^ 8

Undef == [t |-> "undefined"]
Null == [t |-> "null"]
Num(p) == [t |-> "number", n |-> p]
Number(k) == Num(k * Scale)
Str(s) == [t |-> "string", s |-> s]
Bool(b) == [t |-> "boolean", b |-> b]
Obj(f) == [t |-> "object", o |-> f]
Arr(q) == [t |-> "array", a |-> q]

Nullish(v) == v.t \in {"undefined", "null"}

\* ToBoolean: undefined, null, 0, "" and false are falsy
Truthy(v) ==
  CASE v.t \in {"undefined", "null"} -> FALSE
    [] v.t = "number" -> v.n # 0
    [] v.t = "string" -> v.s # ""
    [] v.t = "boolean" -> v.b
    [] OTHER -> TRUE

\* a ?? d in the place of a || d
Or_nullish(a, d) == IF Nullish(a) THEN d ELSE a

\* a || d
Or(a, d) == IF Truthy(a) THEN a ELSE d

\* v.f for a v that is neither undefined nor null: a primitive or an array
\* has none of the fields read here
Prop(v, f) == IF v.t = "object" /\ f \in DOMAIN v.o THEN v.o[f] ELSE Undef

\* v?.f
Opt(v, f) == IF Nullish(v) THEN Undef ELSE Prop(v, f)

(*************************** normalization *********************************)

\* hour => ({...}) of rawData.hourly.map
hourlyPoint(hour) ==
  [time |-> Prop(hour, "time"),
   temperature |-> Prop(hour, "temperature"),
   condition |-> Prop(hour, "condition"),
   description |-> Prop(hour, "description"),
   icon |-> Prop(hour, "icon"),
   precipitation |-> Or(Prop(hour, "precipitation"), Number(0)),
   windSpeed |-> Or(Prop(hour, "windSpeed"), Number(0))]

\* day => ({...}) of rawData.daily.map
dailyPoint(day) ==
  [date |-> Prop(day, "date"),
   temperatureMin |-> Prop(day, "temperatureMin"),
   temperatureMax |-> Prop(day, "temperatureMax"),
   condition |-> Prop(day, "condition"),
   description |-> Prop(day, "description"),
   icon |-> Prop(day, "icon"),
   precipitation |-> Or(Prop(day, "precipitation"), Number(0)),
   humidity |-> Or(Prop(day, "humidity"), Number(0)),
   windSpeed |-> Or(Prop(day, "windSpeed"), Number(0))]

\* x?.map(fn) raises a TypeError when x is neither undefined nor null and
\* either has no callable map (x is not an array) or fn reads a field of an
\* element that is undefined or null
mapThrows(x) ==
  /\ ~Nullish(x)
  /\ \/ x.t # "array"
     \/ \E i \in 1..Len(x.a) : Nullish(x.a[i])

\* whether transformWeatherData(rawData) raises: rawData.location reads a
\* field of rawData itself, unguarded
transformThrows(rawData) ==
  \/ Nullish(rawData)
  \/ mapThrows(Prop(rawData, "hourly"))
  \/ mapThrows(Prop(rawData, "daily"))

TypeError ==
  [t |-> "error", name |-> "TypeError", message |-> Undef,
   response |-> Undef, request |-> Undef]

Thrown(e) == [thrown |-> TRUE, value |-> e]
Returned(v) == [thrown |-> FALSE, value |-> v]

\* the object literal transformWeatherData returns; dateNow is Date.now()
snapshotOf(rawData, dateNow) ==
  LET location == Prop(rawData, "location")
      current == Prop(rawData, "current")
      hourly == Prop(rawData, "hourly")
      daily == Prop(rawData, "daily")
  IN [location |->
        [name |-> Or(Opt(location, "name"), Str("Unknown Location")),
         lat |-> Or(Opt(location, "lat"), Number(0)),
         lon |-> Or(Opt(location, "lon"), Number(0)),
         country |-> Or(Opt(location, "country"), Str("")),
         timezone |-> Or(Opt(location, "timezone"), Str("UTC"))],
      current |->
        [temperature |-> Or(Opt(current, "temperature"), Number(0)),
         feelsLike |-> Or(Opt(current, "feelsLike"), Number(0)),
         humidity |-> Or(Opt(current, "humidity"), Number(0)),
         pressure |-> Or(Opt(current, "pressure"), Number(0)),
         windSpeed |-> Or(Opt(current, "windSpeed"), Number(0)),
         windDirection |-> Or(Opt(current, "windDirection"), Number(0)),
         visibility |-> Or(Opt(current, "visibility"), Number(0)),
         uvIndex |-> Or(Opt(current, "uvIndex"), Number(0)),
         condition |-> Or(Opt(current, "condition"), Str("clear")),
         description |-> Or(Opt(current, "description"), Str("Clear sky")),
         icon |-> Or(Opt(current, "icon"), Str("01d")),
         timestamp |-> Or(Opt(current, "timestamp"), Number(dateNow))],
      hourly |->
        IF Nullish(hourly) THEN <<>>
        ELSE [i \in 1..Len(hourly.a) |-> hourlyPoint(hourly.a[i])],
      daily |->
        IF Nullish(daily) THEN <<>>
        ELSE [i \in 1..Len(daily.a) |-> dailyPoint(daily.a[i])]]

transformWeatherData(rawData, dateNow) ==
  IF transformThrows(rawData) THEN Thrown(TypeError)
  ELSE Returned(snapshotOf(rawData, dateNow))

(****************************** cache **************************************)

\* this.cacheTimeout = 10 * 60 * 1000
cacheTimeout == 10 * 60 * 1000

\* x.toFixed(2) for the number x = p / Scale: the sign, then the integer n
\* with n / 100 closest to |x| (the larger n of two equally close), printed
\* with two fraction digits.  A negative x that rounds to zero prints "-0.00".
toFixed(p) ==
  LET m == IF p < 0 THEN -p ELSE p
      n == (2 * 100 * m + Scale) \div (2 * Scale)
      frac == n % 100
  IN (IF p < 0 THEN "-" ELSE "") \o ToString(n \div 100) \o "."
       \o (IF frac < 10 THEN "0" ELSE "") \o ToString(frac)

\* lat.toFixed / lon.toFixed is not a function unless the value is a number
getCacheKeyThrows(lat, lon) == lat.t # "number" \/ lon.t # "number"

\* `${lat.toFixed(2)},${lon.toFixed(2)}`
getCacheKey(lat, lon) == toFixed(lat.n) \o "," \o toFixed(lon.n)

\* the comparison turned around
isCacheValid_reversed(cacheEntry) == now - cacheEntry.timestamp > cacheTimeout

\* <= in the place of <
isCacheValid_inclusive(cacheEntry) == now - cacheEntry.timestamp <= cacheTimeout

\* Date.now() - cacheEntry.timestamp < this.cacheTimeout
isCacheValid(cacheEntry) == now - cacheEntry.timestamp < cacheTimeout

\* cached && this.isCacheValid(cached), cached = this.cache.get(cacheKey)
cacheHit(cacheKey) == cacheKey \in DOMAIN cache /\ isCacheValid(cache[cacheKey])

\* the cache write left out
cacheSet_skipped(cacheKey, weatherData) == cache

\* this.cache.set(cacheKey, {data: weatherData, timestamp: Date.now()})
cacheSet(cacheKey, weatherData) ==
  (cacheKey :> [data |-> weatherData, timestamp |-> now]) @@ cache

(************************** error mapping **********************************)

AxiosError(msg, response, request) ==
  [t |-> "error", name |-> "AxiosError", message |-> Str(msg),
   response |-> response, request |-> request]

\* new Error(message)
Error(message) ==
  [t |-> "error", name |-> "Error", message |-> Str(message),
   response |-> Undef, request |-> Undef]

\* the switch without its case 429
getErrorMessage_no429(error) ==
  IF Truthy(error.response)
  THEN LET status == Prop(error.response, "status")
       IN CASE status = Number(404) ->
                 "Location not found. Please check your ZIP code."
            [] status = Number(500) ->
                 "Weather service is temporarily unavailable."
            [] OTHER -> "Unable to fetch weather data. Please try again."
  ELSE IF Truthy(error.request)
  THEN "No internet connection. Please check your network."
  ELSE "Something went wrong. Please try again."

getErrorMessage(error) ==
  IF Truthy(error.response)
  THEN LET status == Prop(error.response, "status")
       IN CASE status = Number(404) ->
                 "Location not found. Please check your ZIP code."
            [] status = Number(429) ->
                 "Too many requests. Please wait a moment and try again."
            [] status = Number(500) ->
                 "Weather service is temporarily unavailable."
            [] OTHER -> "Unable to fetch weather data. Please try again."
  ELSE IF Truthy(error.request)
  THEN "No internet connection. Please check your network."
  ELSE "Something went wrong. Please try again."

(************************* the environment *********************************)

\* the arguments callers pass
CallLats == {Num(-1), Num(0), Num(1)}
CallLons == {Num(0)}
ZipCodes == {"10001"}

\* the instants Date.now() is read at: the construction of the service, one
\* millisecond less than a time-to-live later, a full time-to-live later
Instants == {1, cacheTimeout, cacheTimeout + 1}

\* a backend payload naming a place
Place(lat, temperature) ==
  Obj([location |-> Obj([name |-> Str("Springfield"), lat |-> lat, lon |-> Num(0)]),
       current |-> Obj([temperature |-> temperature, timestamp |-> Number(1)])])

\* a backend payload without a location
Nowhere == Obj([current |-> Obj([temperature |-> Number(7), timestamp |-> Number(1)])])

\* what the backend answers GET /coords with: no body, a payload without a
\* location, a place
CoordsPayloads == {Null, Nowhere, Place(Num(-1), Number(5))}

\* what the backend answers GET /zip with: the same, or a place whose
\* latitude is not a number
ZipPayloads == CoordsPayloads \cup {Place(Str("40.7"), Number(5))}

HttpStatuses == {404, 429, 500, 503}

\* what axios.get rejects with: a response with an error status (the request
\* is set too), a request without a response, neither
AxiosErrors ==
  {AxiosError("Request failed", Obj([status |-> Number(s)]), Obj(<<>>)) :
     s \in HttpStatuses}
  \cup {AxiosError("Network Error", Undef, Obj(<<>>)),
        AxiosError("Invalid URL", Undef, Undef)}

(************************** LandingPage state ******************************)

Acts == 1..MaxActs

\* an entry action not yet made
IdleAct ==
  [pc |-> "idle", kind |-> "none", input |-> <<>>, geo |-> "none",
   args |-> <<>>, submit |-> "none"]

\* the component as first rendered: useState('') and no handler run
LandingInit ==
  /\ zipCodeState = <<>>
  /\ acts = [i \in Acts |-> IdleAct]

(***************************** lookups *************************************)

Calls == 1..MaxCalls

Idle ==
  [pc |-> "idle", op |-> "none", lat |-> Undef, lon |-> Undef, zip |-> "",
   gets |-> <<>>, seen |-> <<>>, result |-> Undef, logged |-> Undef]

\* history, taken when a lookup starts: the keys the cache holds, each with
\* whether its entry is within the time-to-live
Seen == [k \in DOMAIN cache |-> isCacheValid(cache[k])]

\* calls are numbered in the order they start
CanStart(c) == calls[c].pc = "idle" /\ \A d \in 1..(c - 1) : calls[d].pc # "idle"

\* a catch block that also drops the cache
catchBlock_clearing(c, error) ==
  /\ calls' = [calls EXCEPT ![c].pc = "thrown",
                            ![c].logged = error,
                            ![c].result = Error(getErrorMessage(error))]
  /\ cache' = <<>>
  /\ UNCHANGED afterClear

\* catch (error) { console.error(..., error); throw new Error(this.getErrorMessage(error)) }
catchBlock(c, error) ==
  /\ calls' = [calls EXCEPT ![c].pc = "thrown",
                            ![c].logged = error,
                            ![c].result = Error(getErrorMessage(error))]
  /\ UNCHANGED <<cache, afterClear>>

\* a cache write that leaves a fresh entry in place
storeAndReturn_keepFresh(c, cacheKey, weatherData) ==
  /\ cache' = IF cacheHit(cacheKey) THEN cache
              ELSE cacheSet(cacheKey, weatherData)
  /\ calls' = [calls EXCEPT ![c].pc = "returned", ![c].result = weatherData]
  /\ afterClear' = IF afterClear = "cleared" THEN "stored" ELSE afterClear

\* the cache write and the return of a lookup whose response was normalized
storeAndReturn(c, cacheKey, weatherData) ==
  /\ cache' = cacheSet(cacheKey, weatherData)
  /\ calls' = [calls EXCEPT ![c].pc = "returned", ![c].result = weatherData]
  /\ afterClear' = IF afterClear = "cleared" THEN "stored" ELSE afterClear

\* a lookup that deletes the entry it finds stale
getWeatherData_evicting(c, lat, lon) ==
  LET cacheKey == getCacheKey(lat, lon)
      started == [Idle EXCEPT !.op = "coords", !.lat = lat, !.lon = lon,
                              !.seen = Seen]
  IN /\ CanStart(c)
     /\ calls' = [calls EXCEPT ![c] =
                    IF cacheHit(cacheKey)
                    THEN [started EXCEPT !.pc = "returned",
                                         !.result = cache[cacheKey].data]
                    ELSE [started EXCEPT !.pc = "awaiting",
                                         !.gets = <<"/coords">>]]
     /\ cache' = IF cacheHit(cacheKey) THEN cache
                 ELSE [k \in DOMAIN cache \ {cacheKey} |-> cache[k]]
     /\ afterClear' = "none"
     /\ UNCHANGED <<now, normIn, normOut, landing>>

\* a lookup that joins a request already in flight for its key
getWeatherData_coalesced(c, lat, lon) ==
  LET cacheKey == getCacheKey(lat, lon)
      started == [Idle EXCEPT !.op = "coords", !.lat = lat, !.lon = lon,
                              !.seen = Seen]
      pending == \E d \in Calls :
                   /\ calls[d].pc = "awaiting" /\ calls[d].op = "coords"
                   /\ getCacheKey(calls[d].lat, calls[d].lon) = cacheKey
  IN /\ CanStart(c)
     /\ calls' = [calls EXCEPT ![c] =
                    IF cacheHit(cacheKey)
                    THEN [started EXCEPT !.pc = "returned",
                                         !.result = cache[cacheKey].data]
                    ELSE IF pending
                    THEN [started EXCEPT !.pc = "awaiting"]
                    ELSE [started EXCEPT !.pc = "awaiting",
                                         !.gets = <<"/coords">>]]
     /\ afterClear' = "none"
     /\ UNCHANGED <<cache, now, normIn, normOut, landing>>

\* getWeatherByCoords(lat, lon) = getWeatherData(lat, lon), up to its await:
\* a fresh entry is returned, anything else issues GET {baseURL}/coords
getWeatherData(c, lat, lon) ==
  LET cacheKey == getCacheKey(lat, lon)
      started == [Idle EXCEPT !.op = "coords", !.lat = lat, !.lon = lon,
                              !.seen = Seen]
  IN /\ CanStart(c)
     /\ calls' = [calls EXCEPT ![c] =
                    IF cacheHit(cacheKey)
                    THEN [started EXCEPT !.pc = "returned",
                                         !.result = cache[cacheKey].data]
                    ELSE [started EXCEPT !.pc = "awaiting",
                                         !.gets = <<"/coords">>]]
     /\ afterClear' = "none"
     /\ UNCHANGED <<cache, now, normIn, normOut, landing>>

\* getWeatherData after its await, the GET answered with response.data
getWeatherDataResolved(c, data) ==
  /\ calls[c].pc = "awaiting" /\ calls[c].op = "coords"
  /\ LET weatherData == transformWeatherData(data, now)
     IN IF weatherData.thrown
        THEN catchBlock(c, weatherData.value)
        ELSE storeAndReturn(c, getCacheKey(calls[c].lat, calls[c].lon),
                            weatherData.value)
  /\ UNCHANGED <<now, normIn, normOut, landing>>

\* getWeatherData after its await, the GET rejected
getWeatherDataRejected(c, error) ==
  /\ calls[c].pc = "awaiting" /\ calls[c].op = "coords"
  /\ catchBlock(c, error)
  /\ UNCHANGED <<now, normIn, normOut, landing>>

\* a ZIP lookup that answers from the cache when it holds a fresh entry
getWeatherByZip_cached(c, zipCode) ==
  LET fresh == {k \in DOMAIN cache : isCacheValid(cache[k])}
      started == [Idle EXCEPT !.op = "zip", !.zip = zipCode, !.seen = Seen]
  IN /\ CanStart(c)
     /\ calls' = [calls EXCEPT ![c] =
                    IF fresh # {}
                    THEN [started EXCEPT !.pc = "returned",
                            !.result = cache[CHOOSE k \in fresh : TRUE].data]
                    ELSE [started EXCEPT !.pc = "awaiting",
                                         !.gets = <<"/zip">>]]
     /\ afterClear' = "none"
     /\ UNCHANGED <<cache, now, normIn, normOut, landing>>

\* getWeatherByZip(zipCode) up to its await: GET {baseURL}/zip, no cache check
getWeatherByZip(c, zipCode) ==
  /\ CanStart(c)
  /\ calls' = [calls EXCEPT ![c] =
                 [Idle EXCEPT !.pc = "awaiting", !.op = "zip", !.zip = zipCode,
                              !.seen = Seen, !.gets = <<"/zip">>]]
  /\ afterClear' = "none"
  /\ UNCHANGED <<cache, now, normIn, normOut, landing>>

\* getWeatherByZip after its await, the GET answered with response.data
getWeatherByZipResolved(c, data) ==
  /\ calls[c].pc = "awaiting" /\ calls[c].op = "zip"
  /\ LET weatherData == transformWeatherData(data, now)
     IN IF weatherData.thrown
        THEN catchBlock(c, weatherData.value)
        ELSE LET lat == weatherData.value.location.lat
                 lon == weatherData.value.location.lon
             IN IF getCacheKeyThrows(lat, lon)
                THEN catchBlock(c, TypeError)
                ELSE storeAndReturn(c, getCacheKey(lat, lon), weatherData.value)
  /\ UNCHANGED <<now, normIn, normOut, landing>>

\* getWeatherByZip after its await, the GET rejected
getWeatherByZipRejected(c, error) ==
  /\ calls[c].pc = "awaiting" /\ calls[c].op = "zip"
  /\ catchBlock(c, error)
  /\ UNCHANGED <<now, normIn, normOut, landing>>

\* a clear that drops only the entries past their time-to-live
clearCache_staleOnly ==
  /\ cache' = [k \in {j \in DOMAIN cache : isCacheValid(cache[j])} |-> cache[k]]
  /\ afterClear' = "cleared"
  /\ UNCHANGED <<now, calls, normIn, normOut, landing>>

\* this.cache.clear()
clearCache ==
  /\ cache' = <<>>
  /\ afterClear' = "cleared"
  /\ UNCHANGED <<now, calls, normIn, normOut, landing>>

\* time passes
Tick ==
  /\ \E t \in Instants : t > now /\ now' = t
  /\ UNCHANGED <<cache, calls, afterClear, normIn, normOut, landing>>

\* new WeatherService()
Init ==
  /\ cache = <<>>
  /\ now = 1
  /\ calls = [c \in Calls |-> Idle]
  /\ afterClear = "none"
  /\ normIn = Undef
  /\ normOut = [done |-> FALSE]
  /\ onZipSubmit = TRUE
  /\ LandingInit

Next ==
  \/ \E c \in Calls, lat \in CallLats, lon \in CallLons : getWeatherData(c, lat, lon)
  \/ \E c \in Calls, data \in CoordsPayloads : getWeatherDataResolved(c, data)
  \/ \E c \in Calls, error \in AxiosErrors : getWeatherDataRejected(c, error)
  \/ \E c \in Calls, zipCode \in ZipCodes : getWeatherByZip(c, zipCode)
  \/ \E c \in Calls, data \in ZipPayloads : getWeatherByZipResolved(c, data)
  \/ \E c \in Calls, error \in AxiosErrors : getWeatherByZipRejected(c, error)
  \/ clearCache
  \/ Tick

Spec == Init /\ [][Next]_vars

(********************* normalization taken alone ***************************)

LocationFields == {"name", "lat", "lon", "country", "timezone"}
CurrentFields ==
  {"temperature", "feelsLike", "humidity", "pressure", "windSpeed",
   "windDirection", "visibility", "uvIndex", "condition", "description",
   "icon", "timestamp"}
HourFields ==
  {"time", "temperature", "condition", "description", "icon", "precipitation",
   "windSpeed"}
DayFields ==
  {"date", "temperatureMin", "temperatureMax", "condition", "description",
   "icon", "precipitation", "humidity", "windSpeed"}

\* what a field of a payload may hold: null, a number, a string
FieldVals == {Null, Number(0), Number(5), Str(""), Str("x")}

\* the objects with at most MaxFields of the given fields set
Objects(fields) ==
  {Obj(f) : f \in UNION {[D -> FieldVals] :
                           D \in {S \in SUBSET fields : Cardinality(S) <= MaxFields}}}

\* what a forecast field may hold: null, a value that is no sequence, a
\* sequence with an absent element, a sequence of points
Forecasts(fields) ==
  {Null, Number(5), Str("x"), Obj(<<>>), Arr(<<>>), Arr(<<Null>>),
   Arr(<<Str("x")>>), Arr(<<Obj(<<>>), Null>>)}
  \cup {Arr(<<point>>) : point \in Objects(fields)}

\* the raw inputs: absent, not an object, or an object with one of its four
\* fields set
RawInputs ==
  {Undef, Null, Number(5), Str("<html>"), Arr(<<>>), Obj(<<>>)}
  \cup {Obj("location" :> v) : v \in {Null, Str("x")} \cup Objects(LocationFields)}
  \cup {Obj("current" :> v) : v \in {Null, Number(5)} \cup Objects(CurrentFields)}
  \cup {Obj("hourly" :> v) : v \in Forecasts(HourFields)}
  \cup {Obj("daily" :> v) : v \in Forecasts(DayFields)}
  \cup CoordsPayloads \cup ZipPayloads

InitNorm ==
  /\ cache = <<>>
  /\ now \in Instants
  /\ calls = [c \in Calls |-> Idle]
  /\ afterClear = "none"
  /\ normIn \in RawInputs
  /\ normOut = [done |-> FALSE]
  /\ onZipSubmit = TRUE
  /\ LandingInit

\* this.transformWeatherData(normIn)
Normalize ==
  /\ ~normOut.done
  /\ normOut' = [done |-> TRUE, out |-> transformWeatherData(normIn, now)]
  /\ UNCHANGED <<cache, now, calls, afterClear, normIn, landing>>

NextNorm == Normalize

SpecNorm == InitNorm /\ [][NextNorm]_vars

(***************************** LandingPage *********************************)
(* src/src/components/LandingPage.js.  A string is a sequence of           *)
(* one-character strings.  An entry action is one run of handleZipSubmit   *)
(* or handleGeolocation; its pc is "awaitGeo" while getCurrentPosition is  *)
(* pending, "awaitSubmit" at `await onZipSubmit(...)`, "timer" once the     *)
(* transition has started and setTimeout is pending, "entered" once it has *)
(* invoked onEnterApp(), "rejected" when the await raised, "invalid" when  *)
(* the ZIP was refused.                                                    *)

Digit == {"0", "1", "2", "3", "4", "5", "6", "7", "8", "9"}
WhiteSpace == {" ", "\t"}

\* a string value passed to a callback
ZipStr(chars) == [t |-> "string", chars |-> chars]

\* String.prototype.trim
trim(str) ==
  LET kept == {i \in 1..Len(str) : str[i] \notin WhiteSpace}
  IN IF kept = {} THEN <<>>
     ELSE SubSeq(str, CHOOSE i \in kept : \A j \in kept : i <= j,
                      CHOOSE i \in kept : \A j \in kept : i >= j)

\* the regular expression without its closing $
zipRegexTest_unanchored(str) ==
  /\ Len(str) >= 5
  /\ \A i \in 1..5 : str[i] \in Digit

\* /^\d{5}(-\d{4})?$/.test(str)
zipRegexTest(str) ==
  /\ Len(str) >= 5
  /\ \A i \in 1..5 : str[i] \in Digit
  /\ LET rest == SubSeq(str, 6, Len(str))
     IN \/ rest = <<>>
        \/ /\ Len(rest) = 5
           /\ rest[1] = "-"
           /\ \A i \in 2..5 : rest[i] \in Digit

\* what the user types into the field
Zip5 == <<"1", "2", "3", "4", "5">>
Plus4 == <<"-", "6", "7", "8", "9">>
ZipInputs ==
  {<<>>, <<" ">>,
   Zip5, <<" ">> \o Zip5 \o <<"\t">>, Zip5 \o Plus4,
   SubSeq(Zip5, 1, 4), Zip5 \o <<"6">>, Zip5 \o <<"-">>,
   Zip5 \o SubSeq(Plus4, 1, 4), Zip5 \o Plus4 \o <<"0">>,
   <<"1", "2", "a", "4", "5">>}

\* the position getCurrentPosition reports
GeoPositions == {[latitude |-> Num(-1), longitude |-> Num(2)]}

\* entry actions are numbered in the order the user makes them
CanAct(i) == acts[i].pc = "idle" /\ \A j \in 1..(i - 1) : acts[j].pc # "idle"

\* the transition and the call of onEnterApp: with the landing-page element
\* present the styles are set and onEnterApp waits for setTimeout, without it
\* onEnterApp is called at once
transition(a, present) ==
  [a EXCEPT !.pc = IF present THEN "timer" ELSE "entered"]

\* handleEnterApp calling onZipSubmit without awaiting it
handleEnterApp_notAwaited(a, zipCodeValue, present) ==
  IF zipCodeValue # Null /\ zipCodeValue.chars # <<>> /\ onZipSubmit
  THEN transition([a EXCEPT !.args = <<zipCodeValue>>, !.submit = "pending"],
                  present)
  ELSE transition(a, present)

\* handleEnterApp(zipCodeValue) up to its await or, without one, its end
handleEnterApp(a, zipCodeValue, present) ==
  IF zipCodeValue # Null /\ zipCodeValue.chars # <<>> /\ onZipSubmit
  THEN [a EXCEPT !.pc = "awaitSubmit", !.args = <<zipCodeValue>>,
                 !.submit = "pending"]
  ELSE transition(a, present)

\* onChange: setZipCode(e.target.value)
setZipCode(value) ==
  /\ zipCodeState' = value
  /\ UNCHANGED <<cache, now, calls, afterClear, normIn, normOut, onZipSubmit, acts>>

\* handleZipSubmit(e)
handleZipSubmit(i, present) ==
  LET a == [IdleAct EXCEPT !.kind = "form", !.input = zipCodeState]
      trimmed == trim(zipCodeState)
  IN /\ CanAct(i)
     /\ acts' = [acts EXCEPT ![i] =
                   IF trimmed # <<>>
                   THEN IF zipRegexTest(trimmed)
                        THEN handleEnterApp(a, ZipStr(trimmed), present)
                        ELSE [a EXCEPT !.pc = "invalid"]
                   ELSE handleEnterApp(a, Null, present)]
     /\ UNCHANGED <<cache, now, calls, afterClear, normIn, normOut,
                    zipCodeState, onZipSubmit>>

\* handleGeolocation(): without navigator.geolocation handleEnterApp() runs,
\* with it getCurrentPosition is pending
handleGeolocation(i, available, present) ==
  LET a == [IdleAct EXCEPT !.kind = "geo"]
  IN /\ CanAct(i)
     /\ acts' = [acts EXCEPT ![i] =
                   IF available
                   THEN [a EXCEPT !.pc = "awaitGeo", !.geo = "pending"]
                   ELSE handleEnterApp([a EXCEPT !.geo = "unavailable"],
                                       Null, present)]
     /\ UNCHANGED <<cache, now, calls, afterClear, normIn, normOut,
                    zipCodeState, onZipSubmit>>

\* the success callback of getCurrentPosition, up to its await or its end
geolocationSuccess(i, position, present) ==
  LET a == [acts[i] EXCEPT !.geo = "success"]
  IN /\ acts[i].pc = "awaitGeo"
     /\ acts' = [acts EXCEPT ![i] =
                   IF onZipSubmit
                   THEN [a EXCEPT !.pc = "awaitSubmit",
                                  !.args = <<Null, position.latitude,
                                             position.longitude>>,
                                  !.submit = "pending"]
                   ELSE transition(a, present)]
     /\ UNCHANGED <<cache, now, calls, afterClear, normIn, normOut,
                    zipCodeState, onZipSubmit>>

\* the error callback of getCurrentPosition: handleEnterApp()
geolocationError(i, present) ==
  /\ acts[i].pc = "awaitGeo"
  /\ acts' = [acts EXCEPT ![i] =
                handleEnterApp([acts[i] EXCEPT !.geo = "error"], Null, present)]
  /\ UNCHANGED <<cache, now, calls, afterClear, normIn, normOut,
                 zipCodeState, onZipSubmit>>

\* `await onZipSubmit(...)` resumes: the rest of the handler runs
onZipSubmitFulfilled(i, present) ==
  /\ acts[i].pc = "awaitSubmit"
  /\ acts' = [acts EXCEPT ![i] =
                transition([acts[i] EXCEPT !.submit = "fulfilled"], present)]
  /\ UNCHANGED <<cache, now, calls, afterClear, normIn, normOut,
                 zipCodeState, onZipSubmit>>

\* `await onZipSubmit(...)` raises: nothing catches it, the handler ends
onZipSubmitRejected(i) ==
  /\ acts[i].pc = "awaitSubmit"
  /\ acts' = [acts EXCEPT ![i].submit = "rejected", ![i].pc = "rejected"]
  /\ UNCHANGED <<cache, now, calls, afterClear, normIn, normOut,
                 zipCodeState, onZipSubmit>>

\* setTimeout(() => { onEnterApp(); }, 1000) fires
timerFires(i) ==
  /\ acts[i].pc = "timer"
  /\ acts' = [acts EXCEPT ![i].pc = "entered"]
  /\ UNCHANGED <<cache, now, calls, afterClear, normIn, normOut,
                 zipCodeState, onZipSubmit>>

\* <LandingPage onEnterApp={...} onZipSubmit={...} />, first render
InitLanding ==
  /\ cache = <<>>
  /\ now = 1
  /\ calls = [c \in Calls |-> Idle]
  /\ afterClear = "none"
  /\ normIn = Undef
  /\ normOut = [done |-> FALSE]
  /\ onZipSubmit \in BOOLEAN
  /\ LandingInit

NextLanding ==
  \/ \E value \in ZipInputs : setZipCode(value)
  \/ \E i \in Acts, present \in BOOLEAN : handleZipSubmit(i, present)
  \/ \E i \in Acts, available, present \in BOOLEAN :
       handleGeolocation(i, available, present)
  \/ \E i \in Acts, position \in GeoPositions, present \in BOOLEAN :
       geolocationSuccess(i, position, present)
  \/ \E i \in Acts, present \in BOOLEAN : geolocationError(i, present)
  \/ \E i \in Acts, present \in BOOLEAN : onZipSubmitFulfilled(i, present)
  \/ \E i \in Acts : onZipSubmitRejected(i)
  \/ \E i \in Acts : timerFires(i)

SpecLanding == InitLanding /\ [][NextLanding]_vars

(************************ properties: normalization ***************************)

StringFields == {"name", "country", "timezone", "condition", "description", "icon"}

\* the shape of a WeatherSnapshot: every location and current field of its
\* documented type, the forecasts sequences
WellFormed(v) ==
  /\ \A f \in LocationFields :
       v.location[f].t = IF f \in StringFields THEN "string" ELSE "number"
  /\ \A f \in CurrentFields :
       v.current[f].t = IF f \in StringFields THEN "string" ELSE "number"
  /\ DOMAIN v.hourly = 1..Len(v.hourly)
  /\ DOMAIN v.daily = 1..Len(v.daily)

\* C8: for every raw input, absent or malformed ones included,
\* transformWeatherData raises nothing and returns a well-formed snapshot
NormalizationNeverFails ==
  normOut.done => (~normOut.out.thrown /\ WellFormed(normOut.out.value))

\* the documented defaults: 0 for a number, a fixed placeholder for a string
LocationDefault ==
  [name |-> Str("Unknown Location"), lat |-> Number(0), lon |-> Number(0),
   country |-> Str(""), timezone |-> Str("UTC")]
CurrentDefault ==
  [temperature |-> Number(0), feelsLike |-> Number(0), humidity |-> Number(0),
   pressure |-> Number(0), windSpeed |-> Number(0), windDirection |-> Number(0),
   visibility |-> Number(0), uvIndex |-> Number(0), condition |-> Str("clear"),
   description |-> Str("Clear sky"), icon |-> Str("01d"), timestamp |-> Number(0)]

OnlyTemperature(v) == Obj("current" :> Obj("temperature" :> v))

\* C9, as claimed: the empty object normalizes to 0 in every numeric field,
\* the placeholder in every string field and empty forecasts; with only
\* current.temperature set, that value is kept and every other field has its
\* default
NormalizationAllDefaults ==
  normOut.done =>
    /\ normIn = Obj(<<>>) =>
         /\ ~normOut.out.thrown
         /\ normOut.out.value =
              [location |-> LocationDefault, current |-> CurrentDefault,
               hourly |-> <<>>, daily |-> <<>>]
    /\ \A v \in {Number(0), Number(5)} :
         normIn = OnlyTemperature(v) =>
           /\ ~normOut.out.thrown
           /\ normOut.out.value =
                [location |-> LocationDefault,
                 current |-> [CurrentDefault EXCEPT !.temperature = v],
                 hourly |-> <<>>, daily |-> <<>>]

\* the values `||` replaces by the default
Falsy == {Undef, Null, Num(0), Str(""), Bool(FALSE)}

\* the field f of the object o of the raw input, Undef where there is none
Given(o, f) == IF o.t = "object" /\ f \in DOMAIN o.o THEN o.o[f] ELSE Undef

\* C9, amended: a location or current field that is absent, null, 0 or ""
\* in the raw input has its default, where the default of current.timestamp
\* is the time of the normalization and not 0, and any other value is kept;
\* absent forecasts are empty sequences
NormalizationDefaults ==
  (normOut.done /\ ~normOut.out.thrown) =>
    LET v == normOut.out.value
        location == Given(normIn, "location")
        current == Given(normIn, "current")
    IN /\ \A f \in LocationFields :
            v.location[f] =
              IF Given(location, f) \in Falsy THEN LocationDefault[f]
              ELSE Given(location, f)
       /\ \A f \in CurrentFields :
            v.current[f] =
              IF Given(current, f) \notin Falsy THEN Given(current, f)
              ELSE IF f = "timestamp" THEN Number(now)
              ELSE CurrentDefault[f]
       /\ Given(normIn, "hourly") \in {Undef, Null} => v.hourly = <<>>
       /\ Given(normIn, "daily") \in {Undef, Null} => v.daily = <<>>

\* C9 witness: a payload with only current.temperature set was normalized,
\* the temperature kept and the timestamp set to the time of normalization
NormalizedOnlyTemperature ==
  /\ normOut.done
  /\ normIn = OnlyTemperature(Number(5))
  /\ ~normOut.out.thrown
  /\ normOut.out.value.current.temperature = Number(5)
  /\ normOut.out.value.current.timestamp = Number(now)
  /\ normOut.out.value.location = LocationDefault

(*************************** properties: lookups ******************************)

\* this step is the start of lookup c
Starts(c) == calls[c].pc = "idle" /\ calls'[c].pc # "idle"

\* the key of coordinate lookup c
KeyOf(c) == getCacheKey(calls[c].lat, calls[c].lon)

\* lookup c has fetched: it issued its one GET and returned the response's snapshot
Fetched(c, path) == calls[c].pc = "returned" /\ calls[c].gets = <<path>>

\* C1: a coordinate lookup that starts while the entry under its key is
\* younger than the time-to-live returns that entry's snapshot at once and
\* issues no request, whichever coordinates of that key it was given
FreshEntryIsReturned ==
  [][\A c \in Calls :
       (Starts(c) /\ calls'[c].op = "coords") =>
         LET k == getCacheKey(calls'[c].lat, calls'[c].lon)
         IN (k \in DOMAIN cache /\ now - cache[k].timestamp < cacheTimeout) =>
              /\ calls'[c].pc = "returned"
              /\ calls'[c].result = cache[k].data
              /\ calls'[c].gets = <<>>
              /\ cache' = cache]_vars

\* C1 witness: a lookup has fetched for one coordinate pair, and a lookup for
\* another pair of the same key, started within the time-to-live, has
\* returned the same snapshot without a request
SecondPairServedFromCache ==
  \E c, d \in Calls :
    /\ Fetched(c, "/coords")
    /\ calls[d].op = "coords" /\ calls[d].pc = "returned" /\ calls[d].gets = <<>>
    /\ calls[d].lat # calls[c].lat
    /\ KeyOf(d) = KeyOf(c)
    /\ KeyOf(d) \in DOMAIN calls[d].seen /\ calls[d].seen[KeyOf(d)]
    /\ calls[d].result = calls[c].result

\* C2: a coordinate lookup that starts while the entry under its key is as
\* old as the time-to-live or older issues a GET to /coords and does not
\* return the cached snapshot
StaleEntryIsRefetched ==
  [][\A c \in Calls :
       (Starts(c) /\ calls'[c].op = "coords") =>
         LET k == getCacheKey(calls'[c].lat, calls'[c].lon)
         IN (k \in DOMAIN cache /\ now - cache[k].timestamp >= cacheTimeout) =>
              /\ calls'[c].pc = "awaiting"
              /\ calls'[c].gets = <<"/coords">>]_vars

\* C2 witness: a lookup that found a stale entry under its key is waiting
\* for the response to its GET
LookupFoundStaleEntry ==
  \E c \in Calls :
    /\ calls[c].op = "coords" /\ calls[c].pc = "awaiting"
    /\ calls[c].gets = <<"/coords">>
    /\ KeyOf(c) \in DOMAIN calls[c].seen /\ ~calls[c].seen[KeyOf(c)]

\* C3, as claimed: the first lookup started after a clearCache() issues a
\* request, also when a lookup was in flight when clearCache() ran
LookupAfterClearFetches ==
  [][\A c \in Calls :
       (Starts(c) /\ afterClear \in {"cleared", "stored"}) =>
         calls'[c].gets # <<>>]_vars

\* C3, amended: the first lookup started after a clearCache() issues a
\* request, provided no response has been stored between the two
LookupRightAfterClearFetches ==
  [][\A c \in Calls :
       (Starts(c) /\ afterClear = "cleared") => calls'[c].gets # <<>>]_vars

\* C3 witness: a lookup has fetched, the cache was cleared after that, and a
\* lookup of the same key started next and waits for its own response
ClearedThenFetchedAgain ==
  \E c, d \in Calls :
    /\ Fetched(c, "/coords")
    /\ calls[d].op = "coords" /\ calls[d].pc = "awaiting"
    /\ calls[d].gets = <<"/coords">>
    /\ KeyOf(d) = KeyOf(c)
    /\ calls[d].seen = <<>>
    /\ cache = <<>>
    /\ afterClear = "none"

\* C4: when a ZIP lookup returns, the cache holds the returned snapshot,
\* younger than the time-to-live, under the key of the snapshot's latitude
\* and longitude: a coordinate lookup for them started then is served it
ZipResultIsCachedByCoords ==
  [][\A c \in Calls :
       (calls[c].op = "zip" /\ calls[c].pc = "awaiting"
          /\ calls'[c].pc = "returned") =>
         LET data == calls'[c].result
             k == getCacheKey(data.location.lat, data.location.lon)
         IN /\ k \in DOMAIN cache'
            /\ cache'[k].data = data
            /\ now' - cache'[k].timestamp < cacheTimeout]_vars

\* C4 witness: a ZIP lookup has fetched, and a coordinate lookup for the
\* latitude and longitude of its snapshot has returned that snapshot
\* without a request
ZipThenCoordsServedFromCache ==
  \E c, d \in Calls :
    /\ calls[c].op = "zip" /\ Fetched(c, "/zip")
    /\ calls[d].op = "coords" /\ calls[d].pc = "returned" /\ calls[d].gets = <<>>
    /\ calls[d].lat = calls[c].result.location.lat
    /\ calls[d].lon = calls[c].result.location.lon
    /\ calls[d].result = calls[c].result

\* the six conditions of the error taxonomy
Condition(error) ==
  IF error.response # Undef
  THEN LET status == error.response.o.status
       IN IF status = Num(404 * Scale) THEN "HTTP 404"
          ELSE IF status = Num(429 * Scale) THEN "HTTP 429"
          ELSE IF status = Num(500 * Scale) THEN "HTTP 500"
          ELSE "other HTTP status"
  ELSE IF error.request # Undef THEN "no response"
  ELSE "not sent"

\* the documented message of each condition
DocumentedMessage ==
  [c \in {"HTTP 404", "HTTP 429", "HTTP 500", "other HTTP status",
          "no response", "not sent"} |->
     CASE c = "HTTP 404" -> "Location not found. Please check your ZIP code."
       [] c = "HTTP 429" -> "Too many requests. Please wait a moment and try again."
       [] c = "HTTP 500" -> "Weather service is temporarily unavailable."
       [] c = "other HTTP status" -> "Unable to fetch weather data. Please try again."
       [] c = "no response" -> "No internet connection. Please check your network."
       [] c = "not sent" -> "Something went wrong. Please try again."]

\* C5: a lookup whose GET was rejected raises an error that carries the
\* documented message of the rejection's condition and nothing else of it
RejectionCarriesDocumentedMessage ==
  \A c \in Calls :
    (calls[c].pc = "thrown" /\ calls[c].logged \in AxiosErrors) =>
      calls[c].result =
        [t |-> "error", name |-> "Error",
         message |-> Str(DocumentedMessage[Condition(calls[c].logged)]),
         response |-> Undef, request |-> Undef]

\* C5 witness: a coordinate lookup has failed on HTTP 429 and a ZIP lookup
\* on a request that got no response
BothLookupsRejected ==
  \E c, d \in Calls :
    /\ calls[c].op = "coords" /\ calls[c].pc = "thrown"
    /\ calls[c].logged \in AxiosErrors
    /\ Condition(calls[c].logged) = "HTTP 429"
    /\ calls[d].op = "zip" /\ calls[d].pc = "thrown"
    /\ calls[d].logged \in AxiosErrors
    /\ Condition(calls[d].logged) = "no response"

\* C6: a ZIP lookup has issued exactly one GET, to /zip, from its start on,
\* whatever the cache held when it started
ZipLookupAlwaysFetches ==
  \A c \in Calls : calls[c].op = "zip" => calls[c].gets = <<"/zip">>

\* C6 witness: a ZIP lookup has fetched although, when it started, the
\* cache held a fresh entry under the key of the location it resolved to
ZipFetchedDespiteFreshEntry ==
  \E c \in Calls :
    /\ calls[c].op = "zip" /\ Fetched(c, "/zip")
    /\ LET k == getCacheKey(calls[c].result.location.lat,
                            calls[c].result.location.lon)
       IN k \in DOMAIN calls[c].seen /\ calls[c].seen[k]

\* C7: a coordinate lookup that starts while another lookup of its key is
\* waiting for its response, and no fresh entry is under the key, issues a
\* GET of its own, and the other lookup stays as it is
ConcurrentLookupsBothFetch ==
  [][\A c, d \in Calls :
       (/\ Starts(c) /\ calls'[c].op = "coords"
        /\ calls[d].op = "coords" /\ calls[d].pc = "awaiting"
        /\ getCacheKey(calls'[c].lat, calls'[c].lon) = KeyOf(d)
        /\ ~(KeyOf(d) \in DOMAIN cache
               /\ now - cache[KeyOf(d)].timestamp < cacheTimeout)) =>
         /\ calls'[c].pc = "awaiting"
         /\ calls'[c].gets = <<"/coords">>
         /\ calls'[d] = calls[d]
         /\ calls[d].gets = <<"/coords">>]_vars

\* C7 witness: two coordinate lookups of one key are both waiting, each for
\* the response to its own GET
TwoRequestsInFlightForOneKey ==
  \E c, d \in Calls :
    /\ c # d
    /\ calls[c].op = "coords" /\ calls[c].pc = "awaiting"
    /\ calls[d].op = "coords" /\ calls[d].pc = "awaiting"
    /\ KeyOf(c) = KeyOf(d)
    /\ calls[c].gets = <<"/coords">> /\ calls[d].gets = <<"/coords">>

\* C10: the start of a lookup and the step in which its request fails leave
\* the cache as it was; the failing step issues no request and ends the
\* lookup with an error; a lookup that has ended with an error does nothing
\* more
FailureIsTerminalAndLeavesCache ==
  [][\A c \in Calls :
       /\ Starts(c) => cache' = cache
       /\ (calls[c].pc = "awaiting" /\ calls'[c].pc = "thrown") =>
            /\ cache' = cache
            /\ \A d \in Calls : calls'[d].gets = calls[d].gets
            /\ calls'[c].result.t = "error"
       /\ calls[c].pc = "thrown" => calls'[c] = calls[c]]_vars

\* C10 witness: a coordinate lookup that found a stale entry under its key
\* has failed on a rejected request, and the stale entry is still there
FailedLookupKeptStaleEntry ==
  \E c \in Calls :
    /\ calls[c].op = "coords" /\ calls[c].pc = "thrown"
    /\ calls[c].logged \in AxiosErrors
    /\ calls[c].gets = <<"/coords">>
    /\ KeyOf(c) \in DOMAIN calls[c].seen /\ ~calls[c].seen[KeyOf(c)]
    /\ KeyOf(c) \in DOMAIN cache /\ ~isCacheValid(cache[KeyOf(c)])

\* the cache key a lookup that returned a fetched snapshot stored it under
StoredKey(call) ==
  IF call.op = "coords" THEN getCacheKey(call.lat, call.lon)
  ELSE getCacheKey(call.result.location.lat, call.result.location.lon)

\* the step in which lookup c receives a successful response
Receives(c) ==
  calls[c].pc = "awaiting" /\ calls'[c].pc = "returned"

\* the step is a clearCache() call
IsClearCache ==
  cache' = <<>> /\ afterClear' = "cleared" /\ calls' = calls /\ now' = now

\* C13: no entry is evicted by expiry: a key leaves the mapping only in a
\* clearCache() step, so between two such steps the key set never shrinks; an
\* entry changes only in the step that receives a successful response for its
\* key, which replaces it by that response's snapshot; the start of a lookup,
\* also one that finds the entry under its key stale, leaves the mapping as
\* it is.
EntriesLeaveOnlyByClearCache ==
  [][/\ ~(DOMAIN cache \subseteq DOMAIN cache') => IsClearCache
     /\ \A k \in DOMAIN cache \cap DOMAIN cache' :
          cache'[k] # cache[k]
            => \E c \in Calls :
                 /\ Receives(c) /\ calls[c].gets # <<>>
                 /\ StoredKey(calls'[c]) = k
                 /\ cache'[k].data = calls'[c].result
     /\ \A c \in Calls : Starts(c) => cache' = cache]_vars

\* C13 witness: a lookup found the entry under its key stale and is waiting
\* for its response; the entry, still stale, is still in the mapping
StaleEntryOutlivesLookup ==
  \E c \in Calls :
    /\ calls[c].op = "coords" /\ calls[c].pc = "awaiting"
    /\ KeyOf(c) \in DOMAIN calls[c].seen /\ ~calls[c].seen[KeyOf(c)]
    /\ KeyOf(c) \in DOMAIN cache
    /\ now - cache[KeyOf(c)].timestamp >= cacheTimeout

\* C14: whatever the interleaving, the step that receives a successful
\* response puts that response's snapshot under its key, stamped with the
\* time of that step, whether or not the key held an entry, fresh or stale,
\* and leaves every other entry alone; no other step adds or changes an
\* entry.  So the entry under a key is that of the response received last.
LastReceivedResponseIsHeld ==
  [][/\ \A c \in Calls :
          Receives(c)
            => LET k == StoredKey(calls'[c])
               IN /\ DOMAIN cache' = DOMAIN cache \cup {k}
                  /\ cache'[k].data = calls'[c].result
                  /\ cache'[k].timestamp = now
                  /\ \A j \in DOMAIN cache \ {k} : cache'[j] = cache[j]
     /\ (\A c \in Calls : ~Receives(c))
          => \A k \in DOMAIN cache' :
               k \in DOMAIN cache /\ cache'[k] = cache[k]]_vars

\* C14 witness: two lookups fetched different snapshots for one key; the
\* response of the one that started last arrived first, and the response of
\* the one that started first then overwrote that fresh entry
EarlierRequestAnsweredLast ==
  \E c, d \in Calls :
    /\ c < d
    /\ calls[c].pc = "returned" /\ calls[c].gets # <<>>
    /\ calls[d].pc = "returned" /\ calls[d].gets # <<>>
    /\ StoredKey(calls[c]) = StoredKey(calls[d])
    /\ calls[c].result # calls[d].result
    /\ StoredKey(calls[c]) \in DOMAIN cache
    /\ cache[StoredKey(calls[c])].data = calls[c].result
    /\ afterClear = "none" /\ now <= cacheTimeout

(************************ properties: landing page *************************)

\* five digits, optionally followed by a hyphen and four digits
IsZipFormat(str) ==
  /\ Len(str) \in {5, 10}
  /\ \A i \in 1..Len(str) : IF i = 6 THEN str[i] = "-" ELSE str[i] \in Digit

\* the entry action was a form submit of a valid ZIP
ValidZipSubmit(a) == a.kind = "form" /\ IsZipFormat(trim(a.input))

\* the entry action was a geolocation click that got a position
GeolocationFix(a) == a.kind = "geo" /\ a.geo = "success"

\* the arguments that carry what the entry action obtained
Obtained(a) ==
  IF a.kind = "form" THEN {<<ZipStr(trim(a.input))>>}
  ELSE {<<Null, p.latitude, p.longitude>> : p \in GeoPositions}

\* onEnterApp has been invoked by the entry action
Entered(a) == a.pc = "entered"

\* the entry action has started the transition or invoked onEnterApp
Transitioning(a) == a.pc \in {"timer", "entered"}

\* C11 as written, its last clause read for every invocation of onEnterApp:
\* onEnterApp is never invoked while an onZipSubmit call is still pending.
NoEntryWhileSubmitPending ==
  [][\A i \in Acts :
       (Entered(acts'[i]) /\ ~Entered(acts[i]))
         => \A j \in Acts : acts[j].submit # "pending"]_vars

\* C11 (amended): with an onZipSubmit callback supplied, an entry action that
\* is a valid ZIP submit or a successful geolocation fix has invoked
\* onZipSubmit with the obtained value, and that call has completed before the
\* action starts the transition and before the action invokes onEnterApp; the
\* action itself never does either while its own call is pending.
LocationCallbackPrecedesEntry ==
  \A i \in Acts :
    LET a == acts[i]
    IN (onZipSubmit /\ (ValidZipSubmit(a) \/ GeolocationFix(a)))
         => /\ a.submit # "none"
            /\ a.args \in Obtained(a)
            /\ Transitioning(a) => a.submit = "fulfilled"
            /\ a.submit = "pending" => a.pc = "awaitSubmit"

\* a valid ZIP submit and a geolocation fix have both entered the app after
\* their onZipSubmit calls completed
ZipAndFixEnteredAfterCallback ==
  \E i, j \in Acts :
    /\ ValidZipSubmit(acts[i]) /\ GeolocationFix(acts[j])
    /\ Entered(acts[i]) /\ Entered(acts[j])
    /\ acts[i].submit = "fulfilled" /\ acts[j].submit = "fulfilled"

\* C12: a form submit invokes onZipSubmit only with the trimmed input, and only
\* when that is five digits optionally followed by a hyphen and four digits; a
\* non-empty input of any other shape invokes neither onZipSubmit nor
\* onEnterApp; an empty or whitespace-only input goes on to onEnterApp without
\* invoking onZipSubmit.
FormSubmitValidatesZip ==
  \A i \in Acts :
    LET a == acts[i]
        trimmed == trim(a.input)
    IN a.kind = "form"
         => /\ a.submit # "none"
                 => /\ Len(a.args) = 1
                    /\ a.args[1] = ZipStr(trimmed)
                    /\ IsZipFormat(a.args[1].chars)
            /\ (trimmed # <<>> /\ ~IsZipFormat(trimmed))
                 => a.submit = "none" /\ a.pc = "invalid"
            /\ trimmed = <<>> => a.submit = "none" /\ Transitioning(a)

\* one submit of a padded valid ZIP has invoked onZipSubmit, another of a
\* string that starts with five digits but goes on wrongly has been refused
PaddedZipSentAndLongZipRefused ==
  \E i, j \in Acts :
    /\ acts[i].kind = "form" /\ acts[i].submit # "none"
    /\ Len(trim(acts[i].input)) < Len(acts[i].input)
    /\ acts[j].kind = "form" /\ acts[j].pc = "invalid"
    /\ Len(trim(acts[j].input)) > 5
    /\ \A k \in 1..5 : acts[j].input[k] \in Digit

\* the entry action was accepted: an empty submit, a valid ZIP submit or a
\* click on the geolocation button
Accepted(a) == a.pc \notin {"idle", "invalid"}

\* the entry action still has a callback or a timer to wait for
Outstanding(a) == a.pc \in {"awaitGeo", "awaitSubmit", "timer"}

\* C15: every accepted entry action enters the app: once nothing it waits
\* for is outstanding (no position callback, no onZipSubmit call, no timer) it
\* has invoked onEnterApp, also when its onZipSubmit call failed; and an
\* action whose geolocation was unavailable or reported an error has not
\* invoked onZipSubmit.
AcceptedActionEntersApp ==
  \A i \in Acts :
    LET a == acts[i]
    IN /\ (Accepted(a) /\ ~Outstanding(a)) => Entered(a)
       /\ a.geo \in {"unavailable", "error"} => a.submit = "none"

=============================================================================
